---- MODULE Spec2Model ----
(***************************************************************************)
(* Crossword CSP solver (generate.py, class CrosswordCreator).             *)
(*                                                                         *)
(* The constraint graph (slots, lengths, overlaps, neighbors) and the      *)
(* vocabulary come from the Crossword object the creator is constructed    *)
(* with.  One run of solve() is modelled step by step:                     *)
(*   enforce_node_consistency -> ac3 (one arc per step) -> backtrack       *)
(*   (one activation record per recursive call, one candidate per step).   *)
(* Words are sequences of letters; the empty word <<>> is Python's "".     *)
(* Overlap indices are 0-based, as in the code; None is the empty tuple.   *)
(***************************************************************************)
EXTENDS Integers, Sequences, FiniteSets, TLC

VARIABLES crossword, word_order, domains, pc, arcs, ac3_ret, assignment,
          stack, result, calls

vars == <<crossword, word_order, domains, pc, arcs, ac3_ret, assignment,
          stack, result, calls>>

\* ---------------------------------------------------------------- bounds
\* the largest number of words in the vocabulary
MaxVocab == 3

\* ---------------------------------------------- the inputs of one run
Alphabet == {"a", "b"}
WordLengths == {1, 2}
SlotNames == <<"s1", "s2", "s3">>
SlotLengths == {1, 2}

None == <<>>

\* ------------------------------------------------- the Crossword object
WordsOfLen(n) == [1..n -> Alphabet]

Universe == UNION {WordsOfLen(n) : n \in WordLengths}

Vocabularies == {V \in SUBSET Universe : Cardinality(V) <= MaxVocab}

VariableSets == {{SlotNames[k] : k \in 1..n} : n \in 1..Len(SlotNames)}

\* pairs of slots that may intersect: consecutive slots of the chain
Links(vs) ==
    {<<SlotNames[k], SlotNames[k + 1]>> : k \in 1..(Len(SlotNames) - 1)}
        \cap (vs \X vs)

\* the 0-based character indexes of a slot
Indexes == UNION {0..(n - 1) : n \in SlotLengths}

\* an overlap descriptor for a link: None, or 0-based indices into each slot
Descriptors(len, l) ==
    {None} \cup ((0..(len[l[1]] - 1)) \X (0..(len[l[2]] - 1)))

\* overlaps[x, y] for every ordered pair of distinct slots, symmetric
Overlaps(vs, f) ==
    [p \in {q \in vs \X vs : q[1] # q[2]} |->
        IF p \in DOMAIN f THEN f[p]
        ELSE IF <<p[2], p[1]>> \in DOMAIN f /\ f[<<p[2], p[1]>>] # None
             THEN <<f[<<p[2], p[1]>>][2], f[<<p[2], p[1]>>][1]>>
             ELSE None]

Crosswords ==
    UNION { UNION { UNION {
        { [variables |-> vs, length |-> len, overlaps |-> Overlaps(vs, f),
           words |-> V] : V \in Vocabularies }
        : f \in {g \in [Links(vs) -> {None} \cup (Indexes \X Indexes)] :
                    \A l \in Links(vs) : g[l] \in Descriptors(len, l)} }
        : len \in [vs -> SlotLengths] }
        : vs \in VariableSets }

neighbors(var) ==
    {v \in crossword.variables :
        v # var /\ crossword.overlaps[<<v, var>>] # None}

\* ------------------------------------------------------ Python helpers
\* the orders in which a set can be iterated
Orderings(S) ==
    {s \in [1..Cardinality(S) -> S] : \A i, j \in 1..Cardinality(S) :
        i # j => s[i] # s[j]}

Range(s) == {s[i] : i \in 1..Len(s)}

\* list comparison k1 <= k2 for keys that are lists of integers
RECURSIVE KeyLeq(_, _)
KeyLeq(k1, k2) ==
    IF k1 = <<>> THEN TRUE
    ELSE IF k2 = <<>> THEN FALSE
    ELSE IF Head(k1) # Head(k2) THEN Head(k1) < Head(k2)
    ELSE KeyLeq(Tail(k1), Tail(k2))

\* insert x into the sorted list s after every element whose key is <= its own
RECURSIVE InsertSorted(_, _, _)
InsertSorted(x, s, key) ==
    IF s = <<>> THEN <<x>>
    ELSE IF KeyLeq(key[Head(s)], key[x])
         THEN <<Head(s)>> \o InsertSorted(x, Tail(s), key)
         ELSE <<x>> \o s

\* sorted(iterable, key=...): stable, ascending
RECURSIVE sorted(_, _)
sorted(s, key) ==
    IF s = <<>> THEN <<>>
    ELSE InsertSorted(s[Len(s)], sorted(SubSeq(s, 1, Len(s) - 1), key), key)

\* truth value of a word: "" is falsy
Truthy(word) == word # <<>>

\* assignment.get(var, False) as a word; a missing key gives the falsy ""
Get(a, var) == IF var \in DOMAIN a THEN a[var] ELSE <<>>

\* a[var] = value on a dict
Put(a, var, value) ==
    [v \in DOMAIN a \cup {var} |-> IF v = var THEN value ELSE a[v]]

EmptyDict == [v \in {} |-> <<>>]

\* ------------------------------------------------------------ __init__
\* the vocabulary words that fit some slot: the only words a domain can hold
\* when it is iterated by order_domain_values
FittingWords(c) ==
    {w \in c.words : \E s \in c.variables : Len(w) = c.length[s]}

\* the orders in which iterating a set of words can yield the fitting words.
\* Only the relative order of words of one length matters (a domain holds
\* words of one length when it is iterated), so shorter words are put first
WordOrders(c) ==
    {o \in Orderings(FittingWords(c)) :
        \A i, j \in 1..Len(o) : i < j => Len(o[i]) <= Len(o[j])}

\* word_order: the order in which iterating a set of words yields them; it
\* is fixed by the words' hashes, so it is the same for every domain and
\* every call of one run, and arbitrary from run to run
Init ==
    /\ crossword \in Crosswords
    /\ word_order \in WordOrders(crossword)
    /\ domains = [var \in crossword.variables |-> crossword.words]
    /\ pc = "node"
    /\ arcs = <<>>
    /\ ac3_ret = "none"
    /\ assignment = EmptyDict
    /\ stack = <<>>
    /\ result = [kind |-> "pending"]
    /\ calls = 0

\* ------------------------------------------- enforce_node_consistency
\* variant: only words longer than the slot are removed
NodeConsistent_OnlyLonger(d) ==
    [var \in DOMAIN d |->
        {word \in d[var] : ~(Len(word) > crossword.length[var])}]

NodeConsistent(d) ==
    [var \in DOMAIN d |->
        {word \in d[var] : ~(Len(word) # crossword.length[var])}]

EnforceNodeConsistency ==
    /\ pc = "node"
    /\ domains' = NodeConsistent(domains)
    /\ pc' = "ac3"
    /\ UNCHANGED <<crossword, word_order, arcs, ac3_ret, assignment, stack,
                   result, calls>>

\* -------------------------------------------------------------- revise
\* variant: the domain of x is rebuilt from the vocabulary words of its length
Revised_FromVocabulary(d, x, y) ==
    LET overlap == crossword.overlaps[<<x, y>>]
    IN  IF overlap # None
        THEN {word \in {w \in crossword.words : Len(w) = crossword.length[x]} :
                ~(\A y_word \in d[y] :
                    y_word[overlap[2] + 1] # word[overlap[1] + 1])}
        ELSE d[x]

\* variant: a word is removed as soon as some word of y differs from it
Revised_AnyDiffers(d, x, y) ==
    LET overlap == crossword.overlaps[<<x, y>>]
    IN  IF overlap # None
        THEN {word \in d[x] :
                ~(\E y_word \in d[y] :
                    y_word[overlap[2] + 1] # word[overlap[1] + 1])}
        ELSE d[x]

\* the domain of x after revise(x, y) on the domains d
Revised(d, x, y) ==
    LET overlap == crossword.overlaps[<<x, y>>]
    IN  IF overlap # None
        THEN {word \in d[x] :
                ~(\A y_word \in d[y] :
                    y_word[overlap[2] + 1] # word[overlap[1] + 1])}
        ELSE d[x]

\* the value revise(x, y) returns
revise(d, x, y) == Revised(d, x, y) # d[x]

\* ----------------------------------------------------------------- ac3
RECURSIVE Concat(_)
Concat(ss) == IF ss = <<>> THEN <<>> ELSE Head(ss) \o Concat(Tail(ss))

\* the arcs (x, z1), (x, z2), ... for the neighbors of x in the order nb
ArcsFrom(x, nb) == [k \in 1..Len(nb) |-> <<x, nb[k]>>]

\* variant: a revision re-enqueues nothing
ArcsInto_Nothing(x, nb) == <<>>

\* the arcs (z1, x), (z2, x), ... for the neighbors z of x in the order nb
ArcsInto(x, nb) == [k \in 1..Len(nb) |-> <<nb[k], x>>]

\* one iteration order of neighbors(var) for every var
NeighborOrders ==
    {f \in [crossword.variables ->
              UNION {Orderings(neighbors(v)) : v \in crossword.variables}] :
        \A v \in crossword.variables : f[v] \in Orderings(neighbors(v))}

\* arcs == None: for var in variables: for neighbor in neighbors(var): append
InitialArcs(order, nb) ==
    Concat([k \in 1..Len(order) |-> ArcsFrom(order[k], nb[order[k]])])

Ac3Init ==
    /\ pc = "ac3"
    /\ \E order \in Orderings(crossword.variables), nb \in NeighborOrders :
          arcs' = InitialArcs(order, nb)
    /\ pc' = "ac3loop"
    /\ UNCHANGED <<crossword, word_order, domains, ac3_ret, assignment, stack, result,
                   calls>>

\* variant: an arc that needed no revision is put back at the end of the queue
Ac3StepNoRevision_Requeue ==
    /\ pc = "ac3loop" /\ arcs # <<>>
    /\ LET x == Head(arcs)[1]
           y == Head(arcs)[2]
       IN  /\ ~revise(domains, x, y)
           /\ arcs' = Append(Tail(arcs), Head(arcs))
    /\ UNCHANGED <<crossword, word_order, domains, pc, ac3_ret, assignment, stack, result,
                   calls>>

\* x, y = arcs.popleft(); revise(x, y) removed nothing
Ac3StepNoRevision ==
    /\ pc = "ac3loop" /\ arcs # <<>>
    /\ LET x == Head(arcs)[1]
           y == Head(arcs)[2]
       IN  /\ ~revise(domains, x, y)
           /\ arcs' = Tail(arcs)
    /\ UNCHANGED <<crossword, word_order, domains, pc, ac3_ret, assignment, stack, result,
                   calls>>

\* variant: the arcs into x are pushed at the front of the queue
Ac3StepRevision_Front ==
    /\ pc = "ac3loop" /\ arcs # <<>>
    /\ LET x == Head(arcs)[1]
           y == Head(arcs)[2]
       IN  /\ revise(domains, x, y)
           /\ Revised(domains, x, y) # {}
           /\ domains' = [domains EXCEPT ![x] = Revised(domains, x, y)]
           /\ \E nb \in Orderings(neighbors(x) \ {y}) :
                 arcs' = ArcsInto(x, nb) \o Tail(arcs)
    /\ UNCHANGED <<crossword, word_order, pc, ac3_ret, assignment, stack, result, calls>>

\* revise(x, y) removed words and the domain of x is still non-empty
Ac3StepRevision ==
    /\ pc = "ac3loop" /\ arcs # <<>>
    /\ LET x == Head(arcs)[1]
           y == Head(arcs)[2]
       IN  /\ revise(domains, x, y)
           /\ Revised(domains, x, y) # {}
           /\ domains' = [domains EXCEPT ![x] = Revised(domains, x, y)]
           /\ \E nb \in Orderings(neighbors(x) \ {y}) :
                 arcs' = Tail(arcs) \o ArcsInto(x, nb)
    /\ UNCHANGED <<crossword, word_order, pc, ac3_ret, assignment, stack, result, calls>>

\* revise(x, y) emptied the domain of x: return False
Ac3Fail ==
    /\ pc = "ac3loop" /\ arcs # <<>>
    /\ LET x == Head(arcs)[1]
           y == Head(arcs)[2]
       IN  /\ revise(domains, x, y)
           /\ Revised(domains, x, y) = {}
           /\ domains' = [domains EXCEPT ![x] = Revised(domains, x, y)]
           /\ arcs' = Tail(arcs)
    /\ ac3_ret' = "False"
    /\ pc' = "bt"
    /\ UNCHANGED <<crossword, word_order, assignment, stack, result, calls>>

\* the queue is empty: return True
Ac3Success ==
    /\ pc = "ac3loop" /\ arcs = <<>>
    /\ ac3_ret' = "True"
    /\ pc' = "bt"
    /\ UNCHANGED <<crossword, word_order, domains, arcs, assignment, stack, result, calls>>

\* ------------------------------------------------- assignment_complete
\* variant: only the slots that have an entry are looked at
assignment_complete_KeysOnly(a) ==
    \A variable \in DOMAIN a : Truthy(Get(a, variable))

assignment_complete(a) ==
    \A variable \in crossword.variables : Truthy(Get(a, variable))

\* ---------------------------------------------------------- consistent
\* variant: the check that no word is used twice is left out
consistent_NoUniqueness(a) ==
    \A key \in DOMAIN a :
        /\ ~(Len(a[key]) # crossword.length[key])
        /\ \A neighbor \in neighbors(key) :
              LET overlap == crossword.overlaps[<<key, neighbor>>]
                  neig_value == Get(a, neighbor)
              IN  (overlap # None /\ Truthy(neig_value)) =>
                      ~(a[key][overlap[1] + 1] # neig_value[overlap[2] + 1])

\* the verdict does not depend on the order the dict is walked in
consistent(a) ==
    /\ \A key \in DOMAIN a :
          /\ ~(Len(a[key]) # crossword.length[key])
          /\ \A neighbor \in neighbors(key) :
                LET overlap == crossword.overlaps[<<key, neighbor>>]
                    neig_value == Get(a, neighbor)
                IN  (overlap # None /\ Truthy(neig_value)) =>
                        ~(a[key][overlap[1] + 1] # neig_value[overlap[2] + 1])
    /\ ~(Cardinality({a[key] : key \in DOMAIN a}) # Cardinality(DOMAIN a))

\* -------------------------------------------------- order_domain_values
RECURSIVE SumOver(_, _)
SumOver(S, f) ==
    IF S = {} THEN 0
    ELSE LET z == CHOOSE z \in S : TRUE IN f[z] + SumOver(S \ {z}, f)

\* variant: the words that agree with value are counted
Conflicts_Agreeing(var, value, z) ==
    LET overlap == crossword.overlaps[<<var, z>>]
    IN  Cardinality({word \in domains[z] :
                        value[overlap[1] + 1] = word[overlap[2] + 1]})

\* words of the domain of z that differ from value at the overlap with var
Conflicts(var, value, z) ==
    LET overlap == crossword.overlaps[<<var, z>>]
    IN  Cardinality({word \in domains[z] :
                        value[overlap[1] + 1] # word[overlap[2] + 1]})

least_constraning(var, value) ==
    SumOver(neighbors(var), [z \in neighbors(var) |-> Conflicts(var, value, z)])

\* domain = self.domains[var].copy(), in the order it is iterated
DomainList(var) ==
    LET In(w) == w \in domains[var] IN SelectSeq(word_order, In)

\* variant: the vocabulary words of the length of var are ordered, whether or
\* not they are still in its domain
order_domain_values_Vocabulary(var) ==
    LET fit == {w \in crossword.words : Len(w) = crossword.length[var]}
        In(w) == w \in fit
    IN  sorted(SelectSeq(word_order, In),
               [value \in fit |-> <<least_constraning(var, value)>>])

order_domain_values(var) ==
    sorted(DomainList(var),
           [value \in domains[var] |-> <<least_constraning(var, value)>>])

\* ------------------------------------------- select_unassigned_variable
\* variant: the slot with the most remaining values comes first
SelectKey_LargestDomain(x) ==
    <<0 - Cardinality(domains[x]), Cardinality(neighbors(x))>>

SelectKey(x) == <<Cardinality(domains[x]), Cardinality(neighbors(x))>>

RECURSIVE FirstUnassigned(_, _)
FirstUnassigned(variables, a) ==
    IF variables = <<>> THEN None
    ELSE IF ~Truthy(Get(a, Head(variables))) THEN Head(variables)
    ELSE FirstUnassigned(Tail(variables), a)

\* iter: the order in which the copy of the variable set is iterated
select_unassigned_variable(a, iter) ==
    FirstUnassigned(sorted(iter, [x \in Range(iter) |-> SelectKey(x)]), a)

\* ----------------------------------------------------------- backtrack
\* one activation record of backtrack
Frame(a) ==
    [st |-> "enter", var |-> None, values |-> <<>>, ordered |-> <<>>,
     entry |-> a, ret |-> "none"]

Top == stack[Len(stack)]

SetTop(f) == [stack EXCEPT ![Len(stack)] = f]

\* solve(): return self.backtrack(dict())
SolveCallsBacktrack ==
    /\ pc = "bt"
    /\ assignment' = EmptyDict
    /\ stack' = <<Frame(EmptyDict)>>
    /\ calls' = calls + 1
    /\ pc' = "search"
    /\ UNCHANGED <<crossword, word_order, domains, arcs, ac3_ret, result>>

\* if self.assignment_complete(assignment): return assignment
BacktrackComplete ==
    /\ pc = "search" /\ Top.st = "enter"
    /\ assignment_complete(assignment)
    /\ stack' = SetTop([Top EXCEPT !.st = "ret", !.ret = "dict"])
    /\ UNCHANGED <<crossword, word_order, domains, pc, arcs, ac3_ret, assignment, result,
                   calls>>

\* var = select_unassigned_variable(...); the list of order_domain_values
BacktrackSelect ==
    /\ pc = "search" /\ Top.st = "enter"
    /\ ~assignment_complete(assignment)
    /\ \E iterV \in Orderings(crossword.variables) :
          LET var == select_unassigned_variable(assignment, iterV)
              values == order_domain_values(var)
          IN  stack' = SetTop([Top EXCEPT !.st = "loop", !.var = var,
                                   !.values = values, !.ordered = values])
    /\ UNCHANGED <<crossword, word_order, domains, pc, arcs, ac3_ret, assignment, result,
                   calls>>

\* the next value passes consistent(temp): commit it and recurse
TryValueCommit ==
    /\ pc = "search" /\ Top.st = "loop" /\ Top.values # <<>>
    /\ LET value == Head(Top.values)
           temp == Put(assignment, Top.var, value)
       IN  /\ consistent(temp)
           /\ assignment' = Put(assignment, Top.var, value)
           /\ stack' = Append(SetTop([Top EXCEPT !.values = Tail(Top.values)]),
                              Frame(assignment'))
    /\ calls' = calls + 1
    /\ UNCHANGED <<crossword, word_order, domains, pc, arcs, ac3_ret, result>>

\* the next value fails consistent(temp): go on with the loop
TryValueReject ==
    /\ pc = "search" /\ Top.st = "loop" /\ Top.values # <<>>
    /\ LET value == Head(Top.values)
           temp == Put(assignment, Top.var, value)
       IN  /\ ~consistent(temp)
           /\ stack' = SetTop([Top EXCEPT !.values = Tail(Top.values)])
    /\ UNCHANGED <<crossword, word_order, domains, pc, arcs, ac3_ret, assignment, result,
                   calls>>

\* the loop is over: return None
BacktrackExhausted ==
    /\ pc = "search" /\ Top.st = "loop" /\ Top.values = <<>>
    /\ stack' = SetTop([Top EXCEPT !.st = "ret", !.ret = "None"])
    /\ UNCHANGED <<crossword, word_order, domains, pc, arcs, ac3_ret, assignment, result,
                   calls>>

\* truth value of what the recursive call returned (the dict, or None)
ResultTruthy(ret, a) == ret = "dict" /\ DOMAIN a # {}

\* result = self.backtrack(assignment); if result: return result
ReturnSuccess ==
    /\ pc = "search" /\ Len(stack) > 1 /\ Top.st = "ret"
    /\ ResultTruthy(Top.ret, assignment)
    /\ LET caller == stack[Len(stack) - 1]
       IN  stack' = Append(SubSeq(stack, 1, Len(stack) - 2),
                           [caller EXCEPT !.st = "ret", !.ret = Top.ret])
    /\ UNCHANGED <<crossword, word_order, domains, pc, arcs, ac3_ret, assignment, result,
                   calls>>

\* variant: the value that failed is also removed from the domain of var
ReturnFailure_Pruning ==
    /\ pc = "search" /\ Len(stack) > 1 /\ Top.st = "ret"
    /\ ~ResultTruthy(Top.ret, assignment)
    /\ LET caller == stack[Len(stack) - 1]
       IN  /\ assignment' = Put(assignment, caller.var, <<>>)
           /\ domains' = [domains EXCEPT ![caller.var] =
                              @ \ {assignment[caller.var]}]
           /\ stack' = SubSeq(stack, 1, Len(stack) - 1)
    /\ UNCHANGED <<crossword, word_order, pc, arcs, ac3_ret, result, calls>>

\* the recursive call failed: assignment[var] = "" and go on with the loop
ReturnFailure ==
    /\ pc = "search" /\ Len(stack) > 1 /\ Top.st = "ret"
    /\ ~ResultTruthy(Top.ret, assignment)
    /\ LET caller == stack[Len(stack) - 1]
       IN  /\ assignment' = Put(assignment, caller.var, <<>>)
           /\ stack' = SubSeq(stack, 1, Len(stack) - 1)
    /\ UNCHANGED <<crossword, word_order, domains, pc, arcs, ac3_ret, result, calls>>

\* the outermost activation returns to solve(), which returns its result
SolveReturns ==
    /\ pc = "search" /\ Len(stack) = 1 /\ Top.st = "ret"
    /\ result' = IF Top.ret = "dict"
                 THEN [kind |-> "dict", dict |-> assignment]
                 ELSE [kind |-> "None"]
    /\ stack' = <<>>
    /\ pc' = "done"
    /\ UNCHANGED <<crossword, word_order, domains, arcs, ac3_ret, assignment, calls>>

Next ==
    \/ EnforceNodeConsistency
    \/ Ac3Init
    \/ Ac3StepNoRevision
    \/ Ac3StepRevision
    \/ Ac3Fail
    \/ Ac3Success
    \/ SolveCallsBacktrack
    \/ BacktrackComplete
    \/ BacktrackSelect
    \/ TryValueCommit
    \/ TryValueReject
    \/ BacktrackExhausted
    \/ ReturnSuccess
    \/ ReturnFailure
    \/ SolveReturns

Spec == Init /\ [][Next]_vars

\* solve() runs as one thread that is never suspended for good: whenever a
\* step is possible, a step is taken
SpecFair == Spec /\ WF_vars(Next)

\* ------------------------------------------------ revise(x, y) on its own
\* the domains revise can be called on: node-consistent, with any part of
\* the fitting words already removed from the two slots of the call
ReviseDomains(c, x, y) ==
    {d \in [c.variables -> SUBSET c.words] :
        \A s \in c.variables :
            /\ \A w \in d[s] : Len(w) = c.length[s]
            /\ s \notin {x, y} =>
                  d[s] = {w \in c.words : Len(w) = c.length[s]}}

InitRevise ==
    /\ crossword \in Crosswords
    /\ \E x, y \in crossword.variables :
          /\ x # y
          /\ arcs = << <<x, y>> >>
          /\ domains \in ReviseDomains(crossword, x, y)
    /\ word_order = <<>>
    /\ pc = "revise"
    /\ ac3_ret = "none"
    /\ assignment = EmptyDict
    /\ stack = <<>>
    /\ result = [kind |-> "pending"]
    /\ calls = 0

\* one call revise(x, y); result holds the value it returns
ReviseCall ==
    /\ pc = "revise"
    /\ LET x == Head(arcs)[1]
           y == Head(arcs)[2]
       IN  /\ domains' = [domains EXCEPT ![x] = Revised(domains, x, y)]
           /\ result' = [kind |-> "bool", value |-> revise(domains, x, y)]
    /\ pc' = "revised"
    /\ UNCHANGED <<crossword, word_order, arcs, ac3_ret, assignment, stack,
                   calls>>

NextRevise == ReviseCall

SpecRevise == InitRevise /\ [][NextRevise]_vars

\* ------------------------------------------- consistent(assignment) on its own
\* variant: items is a list, so its length always equals the number of entries
DistinctValues_ListItems(a) ==
    ~(Cardinality(DOMAIN a) # Cardinality(DOMAIN a))

\* len(items) != len(assignment.values()) does not hold
DistinctValues(a) ==
    ~(Cardinality({a[key] : key \in DOMAIN a}) # Cardinality(DOMAIN a))

\* the loop over the neighbors of key, in the order rest; neig_value[j] raises
\* IndexError when the word of the neighbor is too short
RECURSIVE NeighborLoop(_, _, _)
NeighborLoop(a, key, rest) ==
    IF rest = <<>> THEN "next"
    ELSE LET neighbor == Head(rest)
             overlap == crossword.overlaps[<<key, neighbor>>]
             neig_value == Get(a, neighbor)
         IN  IF overlap # None /\ Truthy(neig_value)
             THEN IF overlap[2] + 1 > Len(neig_value) THEN "IndexError"
                  ELSE IF a[key][overlap[1] + 1] # neig_value[overlap[2] + 1]
                       THEN "False"
                       ELSE NeighborLoop(a, key, Tail(rest))
             ELSE NeighborLoop(a, key, Tail(rest))

\* the loop over assignment.items(), in the order keys
RECURSIVE KeyLoop(_, _, _)
KeyLoop(a, keys, nb) ==
    IF keys = <<>>
    THEN IF DistinctValues(a) THEN "True" ELSE "False"
    ELSE LET key == Head(keys)
         IN  IF Len(a[key]) # crossword.length[key] THEN "False"
             ELSE LET r == NeighborLoop(a, key, nb[key])
                  IN  IF r = "next" THEN KeyLoop(a, Tail(keys), nb) ELSE r

\* the outcome of consistent(a) when the dict is walked in the order keys and
\* the neighbors of each slot in the order nb
consistent_call(a, keys, nb) == KeyLoop(a, keys, nb)

\* the partial assignments of vocabulary words to the slots of c
PartialAssignments(c) ==
    UNION {[S -> c.words] : S \in SUBSET c.variables}

InitConsistent ==
    /\ crossword \in Crosswords
    /\ assignment \in PartialAssignments(crossword)
    /\ domains = [s \in crossword.variables |-> crossword.words]
    /\ word_order = <<>>
    /\ pc = "consistent"
    /\ arcs = <<>>
    /\ ac3_ret = "none"
    /\ stack = <<>>
    /\ result = [kind |-> "pending"]
    /\ calls = 0

\* one call consistent(assignment); result holds its outcome
ConsistentCall ==
    /\ pc = "consistent"
    /\ \E keys \in Orderings(DOMAIN assignment), nb \in NeighborOrders :
          result' = [kind |-> "outcome",
                     value |-> consistent_call(assignment, keys, nb)]
    /\ pc' = "returned"
    /\ UNCHANGED <<crossword, word_order, domains, arcs, ac3_ret, assignment,
                   stack, calls>>

NextConsistent == ConsistentCall

SpecConsistent == InitConsistent /\ [][NextConsistent]_vars

\* ============================================================== claims
\* a complete assignment that satisfies every constraint of the CSP
IsSolution(a) ==
    /\ DOMAIN a = crossword.variables
    /\ \A s \in crossword.variables :
          /\ a[s] # <<>>
          /\ Len(a[s]) = crossword.length[s]
    /\ \A x, y \in crossword.variables :
          (x # y /\ crossword.overlaps[<<x, y>>] # None) =>
              a[x][crossword.overlaps[<<x, y>>][1] + 1]
                  = a[y][crossword.overlaps[<<x, y>>][2] + 1]
    /\ \A x, y \in crossword.variables : x # y => a[x] # a[y]

Satisfiable ==
    \E a \in [crossword.variables -> crossword.words] : IsSolution(a)

\* the domains right after enforce_node_consistency
LengthFiltered ==
    [s \in crossword.variables |->
        {w \in crossword.words : Len(w) = crossword.length[s]}]

\* C1: an assignment returned by solve() gives every slot a non-empty word
\* of the slot's length, agrees at every overlap and uses no word twice
C1_ReturnedAssignmentValid ==
    result.kind = "dict" => IsSolution(result.dict)

C1_Witness ==
    /\ result.kind = "dict"
    /\ Cardinality(crossword.variables) = 3
    /\ \E s \in crossword.variables : Cardinality(neighbors(s)) = 2
    /\ \E x, y \in crossword.variables :
          x # y /\ crossword.length[x] = crossword.length[y]

\* C2: solve() returns None only when no complete assignment satisfies the
\* length, overlap and uniqueness constraints
C2_NoneOnlyIfUnsatisfiable ==
    (pc = "done" /\ result.kind = "None") => ~Satisfiable

\* C3: when the ac3() call of solve() returns False, solve() returns None
C3_Ac3FailureGivesNone ==
    (pc = "done" /\ ac3_ret = "False") => result.kind = "None"

C3_Witness ==
    /\ pc = "done" /\ ac3_ret = "False"
    /\ \E s \in crossword.variables : domains[s] # {}

\* C4 as stated: when ac3() returns False, backtrack is never invoked
C4_NoSearchAfterAc3Failure ==
    ac3_ret = "False" => calls = 0

\* C4 amended: when ac3() returns False, solve() invokes backtrack exactly
\* once; that activation tries no candidate, makes no recursive call and
\* leaves the assignment empty
C4_SearchAfterAc3FailureIsTrivial ==
    ac3_ret = "False" =>
        /\ calls <= 1
        /\ (pc = "done" => calls = 1)
        /\ Len(stack) <= 1
        /\ \A k \in 1..Len(stack) : stack[k].ordered = <<>>
        /\ assignment = EmptyDict

C4_Witness ==
    /\ pc = "done" /\ ac3_ret = "False" /\ calls = 1
    /\ \E s \in crossword.variables : domains[s] # {}

\* C5: after enforce_node_consistency every domain holds exactly the
\* vocabulary words of the slot's length, and in every later state every
\* word of every domain has the slot's length
C5_NodeConsistency ==
    /\ (pc = "ac3" => domains = LengthFiltered)
    /\ pc # "node" =>
          \A s \in crossword.variables : \A w \in domains[s] :
              Len(w) = crossword.length[s]

C5_Witness ==
    /\ pc = "ac3"
    /\ \E s \in crossword.variables :
          /\ domains[s] # {}
          /\ \E w \in crossword.words : Len(w) # crossword.length[s]

\* C6: when ac3() returns True, every word left in the domain of a slot has,
\* in the domain of each neighbor, a word with the same letter at the overlap
C6_ArcConsistentOnSuccess ==
    ac3_ret = "True" =>
        \A x \in crossword.variables : \A y \in neighbors(x) :
            \A w \in domains[x] : \E v \in domains[y] :
                w[crossword.overlaps[<<x, y>>][1] + 1]
                    = v[crossword.overlaps[<<x, y>>][2] + 1]

C6_Witness ==
    /\ ac3_ret = "True" /\ pc = "bt"
    /\ \E x \in crossword.variables :
          /\ neighbors(x) # {}
          /\ domains[x] # {}
          /\ domains[x] # LengthFiltered[x]

\* C7: ac3() returns True only if no domain is empty when it returns
C7_TrueOnlyIfNoEmptyDomain ==
    (pc = "bt" /\ ac3_ret = "True") =>
        \A s \in crossword.variables : domains[s] # {}

\* the activation on top of the stack has just chosen its slot
JustSelected ==
    /\ pc = "search"
    /\ Top.st = "loop"
    /\ Top.values = Top.ordered
    /\ Top.entry = assignment

Unassigned == {s \in crossword.variables : Get(assignment, s) = <<>>}

\* C8: select_unassigned_variable returns an unassigned slot with the
\* smallest domain and, among those, one with the most neighbors
C8_MrvThenHighestDegree ==
    JustSelected =>
        /\ Top.var \in Unassigned
        /\ \A s \in Unassigned :
              Cardinality(domains[Top.var]) <= Cardinality(domains[s])
        /\ \A s \in Unassigned :
              Cardinality(domains[s]) = Cardinality(domains[Top.var]) =>
                  Cardinality(neighbors(s)) <= Cardinality(neighbors(Top.var))

\* the number of words in the domains of the neighbors of var that differ
\* from value at the overlap position
ConflictCount(var, value) ==
    Cardinality({p \in UNION {{z} \X domains[z] : z \in neighbors(var)} :
        value[crossword.overlaps[<<var, p[1]>>][1] + 1]
            # p[2][crossword.overlaps[<<var, p[1]>>][2] + 1]})

\* C9: order_domain_values returns every word of the domain exactly once,
\* in an order along which the conflict count never decreases
C9_LeastConstrainingOrder ==
    JustSelected =>
        /\ Len(Top.ordered) = Cardinality(domains[Top.var])
        /\ Range(Top.ordered) = domains[Top.var]
        /\ \A i, j \in 1..Len(Top.ordered) :
              i < j => ConflictCount(Top.var, Top.ordered[i])
                          <= ConflictCount(Top.var, Top.ordered[j])

C9_Witness ==
    /\ JustSelected
    /\ Len(Top.ordered) >= 3
    /\ \E i, j \in 1..Len(Top.ordered) :
          ConflictCount(Top.var, Top.ordered[i])
              # ConflictCount(Top.var, Top.ordered[j])

\* C10: from the call of backtrack until it returns no domain changes
C10_SearchKeepsDomains ==
    [][(pc \in {"bt", "search"}) => (domains' = domains)]_vars

C10_Witness ==
    /\ pc = "search"
    /\ Len(stack) >= 2
    /\ \E s \in DOMAIN assignment : assignment[s] = <<>>

\* C11: every domain starts as the full vocabulary, and no step of the solve
\* adds a word to a domain
C11_DomainsMonotone ==
    [][/\ (pc = "node" =>
              \A s \in crossword.variables : domains[s] = crossword.words)
       /\ \A s \in crossword.variables : domains'[s] \subseteq domains[s]]_vars

C11_Witness ==
    /\ pc = "search"
    /\ Len(stack) >= 2
    /\ \E s \in crossword.variables :
          /\ domains[s] # {}
          /\ domains[s] # LengthFiltered[s]
          /\ LengthFiltered[s] # crossword.words

\* a recursive call of the activation on top has failed and its tentative
\* extension has been undone; the loop is about to check the next candidate
AfterFailedBranch ==
    /\ pc = "search"
    /\ Top.st = "loop"
    /\ Top.values # <<>>
    /\ Top.values # Top.ordered
    /\ Top.var \in DOMAIN assignment
    /\ assignment[Top.var] = <<>>

\* C12: after a failed recursive call is undone, the consistency check of the
\* next candidate gives the verdict it gives on the assignment received at
\* entry extended by that candidate alone
C12_FailedBranchLeavesNoTrace ==
    AfterFailedBranch =>
        (consistent(Put(assignment, Top.var, Head(Top.values)))
            <=> consistent(Put(Top.entry, Top.var, Head(Top.values))))

\* C13: during search every entry's word has the length of its slot, entries
\* of neighboring slots agree on the shared letter, and the entries' words
\* are pairwise distinct
C13_SearchInvariants ==
    pc = "search" =>
        /\ \A s \in DOMAIN assignment :
              Len(assignment[s]) = crossword.length[s]
        /\ \A x, y \in DOMAIN assignment :
              (x # y /\ crossword.overlaps[<<x, y>>] # None) =>
                  assignment[x][crossword.overlaps[<<x, y>>][1] + 1]
                      = assignment[y][crossword.overlaps[<<x, y>>][2] + 1]
        /\ \A x, y \in DOMAIN assignment :
              x # y => assignment[x] # assignment[y]

\* C14: revise(x, y) removes from the domain of x exactly the words with no
\* word of the domain of y that has the same letter at the overlap, changes
\* no other domain, and returns True exactly when it removed a word; without
\* an overlap it changes nothing and returns False
C14_ReviseExact ==
    [][pc = "revise" =>
        LET x == Head(arcs)[1]
            y == Head(arcs)[2]
            ov == crossword.overlaps[<<x, y>>]
        IN  /\ ov # None =>
                  \A w \in domains[x] :
                      w \in domains'[x] <=>
                          \E v \in domains[y] : v[ov[2] + 1] = w[ov[1] + 1]
            /\ domains'[x] \subseteq domains[x]
            /\ \A s \in crossword.variables \ {x} : domains'[s] = domains[s]
            /\ result'.value <=> (domains'[x] # domains[x])
            /\ ov = None => (domains' = domains /\ result'.value = FALSE)]_vars

C14_Witness ==
    /\ pc = "revised"
    /\ result.value = TRUE
    /\ Cardinality(crossword.variables) = 3
    /\ LET x == Head(arcs)[1]
           y == Head(arcs)[2]
       IN  /\ domains[x] # {}
           /\ Cardinality(domains[y]) >= 2

\* C15: on a partial assignment of non-empty words consistent returns True
\* exactly when every assigned word has the length of its slot, assigned
\* neighbouring slots agree on the letter at their overlap, and no two
\* assigned slots hold the same word; it changes neither the assignment nor
\* the domains
C15_ConsistentExact ==
    [][pc = "consistent" =>
        /\ (result'.value = "True") <=>
              /\ \A s \in DOMAIN assignment :
                    Len(assignment[s]) = crossword.length[s]
              /\ \A x, y \in DOMAIN assignment :
                    (x # y /\ crossword.overlaps[<<x, y>>] # None) =>
                        assignment[x][crossword.overlaps[<<x, y>>][1] + 1]
                            = assignment[y][crossword.overlaps[<<x, y>>][2] + 1]
              /\ \A x, y \in DOMAIN assignment :
                    x # y => assignment[x] # assignment[y]
        /\ assignment' = assignment
        /\ domains' = domains]_vars

C15_Witness ==
    /\ pc = "returned"
    /\ result.value = "True"
    /\ Cardinality(DOMAIN assignment) = 3
    /\ \E x, y \in DOMAIN assignment :
          x # y /\ crossword.overlaps[<<x, y>>] # None

\* C16: ac3 takes the arc (x, y) at the front of the queue; when revise
\* removes nothing no arc is added; when it removes a word and the domain of
\* x stays non-empty, exactly the arcs (z, x) for the neighbours z of x other
\* than y are appended at the back; when the domain of x becomes empty ac3
\* returns failure at once
C16_QueueDiscipline ==
    [][(pc = "ac3loop" /\ arcs # <<>>) =>
        LET x == Head(arcs)[1]
            y == Head(arcs)[2]
            removed == domains'[x] # domains[x]
            others == neighbors(x) \ {y}
            added == Len(arcs') - Len(Tail(arcs))
        IN  /\ \A s \in crossword.variables \ {x} : domains'[s] = domains[s]
            /\ ~removed => (arcs' = Tail(arcs) /\ pc' = "ac3loop")
            /\ (removed /\ domains'[x] # {}) =>
                  /\ pc' = "ac3loop"
                  /\ added = Cardinality(others)
                  /\ SubSeq(arcs', 1, Len(Tail(arcs))) = Tail(arcs)
                  /\ {arcs'[k] : k \in Len(Tail(arcs)) + 1 .. Len(arcs')}
                        = {<<z, x>> : z \in others}
            /\ (removed /\ domains'[x] = {}) =>
                  (pc' = "bt" /\ ac3_ret' = "False")]_vars

\* an arc appended at the back while the queue still holds its first copy
C16_Witness ==
    /\ pc = "ac3loop"
    /\ Len(arcs) >= 2
    /\ \E i \in 1..Len(arcs) - 1 : arcs[i] = arcs[Len(arcs)]
    /\ LET x == arcs[Len(arcs)][2]
       IN  domains[x] # {} /\ domains[x] # LengthFiltered[x]

\* a measure of the work solve() has left, compared lexicographically: the
\* phase, the words still in the domains, the arcs still queued, and the
\* activations of backtrack weighted by their depth
PhaseRank ==
    CASE pc = "node" -> 5
      [] pc = "ac3" -> 4
      [] pc = "ac3loop" -> 3
      [] pc = "bt" -> 2
      [] pc = "search" -> 1
      [] OTHER -> 0

FrameRank(f) ==
    CASE f.st = "enter" -> Cardinality(crossword.words) + 3
      [] f.st = "loop" -> Len(f.values) + 2
      [] OTHER -> 1

StackRank ==
    LET base == Cardinality(crossword.words) + 4
        height == Cardinality(crossword.variables) + 1
    IN  SumOver(1..Len(stack),
                [k \in 1..Len(stack) |->
                    FrameRank(stack[k]) * base ^ (height - k)])

Rank ==
    <<PhaseRank,
      SumOver(crossword.variables,
              [s \in crossword.variables |-> Cardinality(domains[s])]),
      Len(arcs),
      StackRank>>

LexLess(a, b) ==
    \E i \in 1..Len(a) :
        /\ a[i] < b[i]
        /\ \A j \in 1..i - 1 : a[j] = b[j]

\* some step of solve() is possible; for BacktrackSelect: the activation has
\* just been entered, a slot is left to fill and the selection yields a slot
CanStep ==
    \/ ENABLED (\/ EnforceNodeConsistency \/ Ac3Init \/ Ac3StepNoRevision
                \/ Ac3StepRevision \/ Ac3Fail \/ Ac3Success
                \/ SolveCallsBacktrack \/ BacktrackComplete
                \/ TryValueCommit \/ TryValueReject \/ BacktrackExhausted
                \/ ReturnSuccess \/ ReturnFailure \/ SolveReturns)
    \/ /\ pc = "search" /\ Top.st = "enter"
       /\ ~assignment_complete(assignment)
       /\ \E iterV \in Orderings(crossword.variables) :
             select_unassigned_variable(assignment, iterV)
                 \in crossword.variables

\* C17: solve() terminates: every step of ac3 and of backtrack strictly
\* lowers a measure that cannot fall for ever, a step is possible until solve()
\* has returned a complete assignment or None, and the outermost backtrack
\* never has more recursive calls nested in it than there are slots
C17_SolveTerminates ==
    /\ [][LexLess(Rank', Rank)]_vars
    /\ [](pc # "done" => CanStep)
    /\ [](pc = "done" => result.kind \in {"dict", "None"})
    /\ [](Len(stack) - 1 <= Cardinality(crossword.variables))

\* a finished run whose search went as deep as the number of slots and had to
\* back out of a branch
C17_Witness ==
    /\ pc = "done"
    /\ result.kind = "dict"
    /\ Cardinality(crossword.variables) = 3
    /\ calls > Cardinality(crossword.variables) + 1

\* C18: every word backtrack has committed to a slot, and every word of the
\* assignment solve() returns, is in the domain of that slot as node
\* consistency and ac3 left it
C18_CommittedWordsFromDomain ==
    /\ pc \in {"search", "done"} =>
          \A s \in DOMAIN assignment :
              Truthy(assignment[s]) => assignment[s] \in domains[s]
    /\ result.kind = "dict" =>
          \A s \in DOMAIN result.dict : result.dict[s] \in domains[s]
    /\ pc = "search" =>
          \A k \in 1..Len(stack) :
              stack[k].st = "loop" =>
                  Range(stack[k].ordered) \subseteq domains[stack[k].var]

\* a returned assignment for a puzzle where ac3 removed a fitting word
C18_Witness ==
    /\ pc = "done"
    /\ result.kind = "dict"
    /\ ac3_ret = "True"
    /\ \E s \in crossword.variables :
          /\ domains[s] # LengthFiltered[s]
          /\ s \in DOMAIN result.dict

====
